---- MODULE Spec2Model ----
(***************************************************************************)
(* Model of src/anomalies/anomaly.py: the generator _z of anomaly-free     *)
(* integer sets (arXiv:1905.13729) and the wrapper class cfree that        *)
(* records the gcd of the solution and the solution divided by it.         *)
(*                                                                         *)
(* Python lists are TLA+ sequences: ll[0] of the source is ll[1] here.     *)
(***************************************************************************)
EXTENDS Integers, Sequences, FiniteSets, TLC

VARIABLES ll, k, sort, reverse, pc, zz,
          self, gcd, simplified, attrs, frame, ret, calls

genVars == <<ll, k, sort, reverse, pc, zz>>

wrapVars == <<self, gcd, simplified, attrs, frame, ret, calls>>

vars == <<genVars, wrapVars>>

(***************************************************************************)
(* Bounds of the generator's inputs: elements of ll and k are drawn from   *)
(* -1..MaxVal, ll has at most MaxLen elements and k at most MaxLen + 1.    *)
(***************************************************************************)
MaxVal == 2
MaxLen == 2

(***************************************************************************)
(* Bounds of the wrapper's callers: at most MaxCalls calls are made, with  *)
(* elements from 0..MaxCallVal, or from 10000..10000 + MaxBig.             *)
(***************************************************************************)
MaxCalls == 2
MaxCallVal == 1
MaxBig == 3

Vals == -1..MaxVal

SeqsUpTo(S, n) == UNION {[1..m -> S] : m \in 0..n}

(***************************************************************************)
(* Helpers on sequences of integers.                                       *)
(***************************************************************************)
\* [-i for i in s]
Neg(s) == [i \in 1..Len(s) |-> -s[i]]

\* abs, the sort key of line 37
Abs(n) == IF n < 0 THEN -n ELSE n

RECURSIVE Sum(_)
\* ndarray.sum()
Sum(s) == IF s = <<>> THEN 0 ELSE Head(s) + Sum(Tail(s))

RECURSIVE Rev(_)
Rev(s) == IF s = <<>> THEN <<>> ELSE Rev(Tail(s)) \o <<Head(s)>>

(***************************************************************************)
(* numpy's elementwise arithmetic on two one-dimensional arrays: the       *)
(* shapes (m,) and (n,) broadcast when they are equal or one of them is 1, *)
(* and the operation raises ValueError otherwise.                          *)
(***************************************************************************)
Broadcastable(m, n) == m = n \/ m = 1 \/ n = 1

BroadLen(m, n) == IF m = 1 THEN n ELSE m

At(s, i) == IF Len(s) = 1 THEN s[1] ELSE s[i]

(***************************************************************************)
(* The vector-like solutions x and y of lines 28-33.                       *)
(***************************************************************************)
X(l, kk) ==
    IF Len(l) = Len(kk)
    THEN <<l[1]>> \o kk \o <<-l[1]>> \o Neg(kk)
    ELSE <<0>> \o kk \o Neg(kk)

Y(l, kk) ==
    IF Len(l) = Len(kk)
    THEN <<0, 0>> \o l \o Neg(l)
    ELSE l \o <<kk[1]>> \o <<0>> \o Neg(l) \o <<-kk[1]>>

\* x * y * 2 for x * y**2
CoefA_twice(x, y) ==
    Sum([i \in 1..BroadLen(Len(x), Len(y)) |-> At(x, i) * At(y, i) * 2])

\* (x * y**2).sum()
CoefA(x, y) ==
    Sum([i \in 1..BroadLen(Len(x), Len(y)) |-> At(x, i) * At(y, i) * At(y, i)])

\* (x**2 * y).sum()
CoefB(x, y) ==
    Sum([i \in 1..BroadLen(Len(x), Len(y)) |-> At(x, i) * At(x, i) * At(y, i)])

\* the second term added instead of subtracted
Combine_plus(x, y) ==
    LET a == CoefA(x, y)
        b == CoefB(x, y)
    IN  [i \in 1..BroadLen(Len(x), Len(y)) |-> a * At(x, i) + b * At(y, i)]

\* zz = (x * y**2).sum() * x - (x**2 * y).sum() * y
Combine(x, y) ==
    LET a == CoefA(x, y)
        b == CoefB(x, y)
    IN  [i \in 1..BroadLen(Len(x), Len(y)) |-> a * At(x, i) - b * At(y, i)]

(***************************************************************************)
(* sorted(zz, key=abs, reverse=reverse): a stable sort.  With reverse the  *)
(* order of the keys is descending and elements with equal keys still keep *)
(* their original order (CPython reverses the list, sorts it, and reverses *)
(* the result).                                                            *)
(***************************************************************************)
RECURSIVE InsertByAbs_nokey(_, _)
\* the key left out: the values themselves are compared
InsertByAbs_nokey(v, s) ==
    IF s = <<>> THEN <<v>>
    ELSE IF Head(s) <= v
         THEN <<Head(s)>> \o InsertByAbs_nokey(v, Tail(s))
         ELSE <<v>> \o s

RECURSIVE InsertByAbs(_, _)
\* v goes behind every element whose key is not larger
InsertByAbs(v, s) ==
    IF s = <<>> THEN <<v>>
    ELSE IF Abs(Head(s)) <= Abs(v)
         THEN <<Head(s)>> \o InsertByAbs(v, Tail(s))
         ELSE <<v>> \o s

RECURSIVE StableSortAbs(_)
StableSortAbs(s) ==
    IF s = <<>> THEN <<>>
    ELSE InsertByAbs(s[Len(s)], StableSortAbs(SubSeq(s, 1, Len(s) - 1)))

\* the ascending result read backwards
sorted_backwards(s, rev) ==
    IF rev THEN Rev(StableSortAbs(s)) ELSE StableSortAbs(s)

sorted(s, rev) ==
    IF rev THEN Rev(StableSortAbs(Rev(s))) ELSE StableSortAbs(s)

(***************************************************************************)
(* _z: the outcome is a record; err is "none" when a vector is returned,   *)
(* "IndexError" when ll[0] or k[0] does not exist, and "ValueError" when   *)
(* the shapes of x and y do not broadcast.                                 *)
(***************************************************************************)
Raise(e) == [err |-> e, zz |-> <<>>]

Return(v) == [err |-> "none", zz |-> v]

\* the exception raised while x and y are built and combined, if any
ErrorOf_nonempty(l, kk) ==
    IF l = <<>> \/ kk = <<>> THEN "IndexError"
    ELSE IF ~Broadcastable(Len(X(l, kk)), Len(Y(l, kk))) THEN "ValueError"
    ELSE "none"

ErrorOf(l, kk) ==
    IF Len(l) = Len(kk) /\ l = <<>> THEN "IndexError"
    ELSE IF Len(l) # Len(kk) /\ kk = <<>> THEN "IndexError"
    ELSE IF ~Broadcastable(Len(X(l, kk)), Len(Y(l, kk))) THEN "ValueError"
    ELSE "none"

Unsorted(l, kk) == Combine(X(l, kk), Y(l, kk))

\* x and y cut to the shorter of the two, as zip() pairs them
_z_zip(l, kk, srt, rev) ==
    LET n == IF Len(X(l, kk)) < Len(Y(l, kk)) THEN Len(X(l, kk)) ELSE Len(Y(l, kk))
        v == Combine(SubSeq(X(l, kk), 1, n), SubSeq(Y(l, kk), 1, n))
    IN  IF ErrorOf(l, kk) = "IndexError" THEN Raise("IndexError")
        ELSE Return(IF srt THEN sorted(v, rev) ELSE v)

_z(l, kk, srt, rev) ==
    IF ErrorOf(l, kk) # "none" THEN Raise(ErrorOf(l, kk))
    ELSE Return(IF srt THEN sorted(Unsorted(l, kk), rev) ELSE Unsorted(l, kk))

(***************************************************************************)
(* numpy's numbers.  np.array of a list of Python ints has dtype int64 and *)
(* zz / self.gcd is a float64 array.  The integers of the model checker    *)
(* are 32 bits wide, so an int64 is a record [neg, mag]: mag is the        *)
(* magnitude as a sequence of digits to the base Base, least significant   *)
(* digit first and without leading zeros (0 is <<>> and is never           *)
(* negative).                                                              *)
(***************************************************************************)
Base == 10000

RECURSIVE NTrim(_)
\* leading zero digits removed
NTrim(a) ==
    IF a = <<>> THEN <<>>
    ELSE IF a[Len(a)] = 0 THEN NTrim(SubSeq(a, 1, Len(a) - 1)) ELSE a

RECURSIVE NOfInt(_)
NOfInt(n) == IF n = 0 THEN <<>> ELSE <<n % Base>> \o NOfInt(n \div Base)

RECURSIVE NCmpFrom(_, _, _)
NCmpFrom(a, b, i) ==
    IF i = 0 THEN 0
    ELSE IF a[i] < b[i] THEN -1
    ELSE IF a[i] > b[i] THEN 1
    ELSE NCmpFrom(a, b, i - 1)

\* -1, 0 or 1 as a < b, a = b or a > b
NCmp(a, b) ==
    IF Len(a) < Len(b) THEN -1
    ELSE IF Len(a) > Len(b) THEN 1
    ELSE NCmpFrom(a, b, Len(a))

NDigit(a, i) == IF i <= Len(a) THEN a[i] ELSE 0

RECURSIVE NAddFrom(_, _, _, _)
NAddFrom(a, b, i, carry) ==
    IF i > Len(a) /\ i > Len(b)
    THEN (IF carry = 0 THEN <<>> ELSE <<carry>>)
    ELSE LET t == NDigit(a, i) + NDigit(b, i) + carry
         IN  <<t % Base>> \o NAddFrom(a, b, i + 1, t \div Base)

NAdd(a, b) == NAddFrom(a, b, 1, 0)

RECURSIVE NSubFrom(_, _, _, _)
NSubFrom(a, b, i, borrow) ==
    IF i > Len(a) THEN <<>>
    ELSE LET t == a[i] - NDigit(b, i) - borrow
         IN  IF t < 0 THEN <<t + Base>> \o NSubFrom(a, b, i + 1, 1)
                      ELSE <<t>> \o NSubFrom(a, b, i + 1, 0)

\* a - b for a >= b
NSub(a, b) == NTrim(NSubFrom(a, b, 1, 0))

RECURSIVE NMulDigit(_, _, _, _)
NMulDigit(a, d, i, carry) ==
    IF i > Len(a) THEN (IF carry = 0 THEN <<>> ELSE <<carry>>)
    ELSE LET t == a[i] * d + carry
         IN  <<t % Base>> \o NMulDigit(a, d, i + 1, t \div Base)

\* a * d for one digit d
NTimes(a, d) == NTrim(NMulDigit(a, d, 1, 0))

RECURSIVE NMul(_, _)
NMul(a, b) ==
    IF a = <<>> \/ b = <<>> THEN <<>>
    ELSE NAdd(NTimes(a, Head(b)),
              IF Tail(b) = <<>> THEN <<>> ELSE <<0>> \o NMul(a, Tail(b)))

\* r div b for b > 0 and r < b * Base: one digit of a long division.  r and
\* b are scaled so that the leading digit of b is at least Base / 2; then the
\* quotient of the leading digits is the digit or exceeds it by at most 2.
\* the factor that brings the leading digit of b to Base / 2 at least
QuotScale(b) == Base \div (b[Len(b)] + 1)

\* the quotient of the leading digits of the scaled rs and bs
QuotEstimate(rs, bs) ==
    (NDigit(rs, Len(bs) + 1) * Base + NDigit(rs, Len(bs))) \div bs[Len(bs)]

\* p = b * d for the digit d with b * d <= r < b * (d + 1)
IsQuot(p, r, b) == NCmp(p, r) <= 0 /\ NCmp(NAdd(p, b), r) > 0

\* the digit is hi or less than hi by at most 2
QuotNear(hi, r, b) ==
    CHOOSE d \in (hi - 2)..hi : d >= 0 /\ IsQuot(NTimes(b, d), r, b)

Least(m, n) == IF m < n THEN m ELSE n

QuotDigit(r, b) ==
    IF NCmp(r, b) < 0 THEN 0
    ELSE QuotNear(Least(QuotEstimate(NTimes(r, QuotScale(b)),
                                     NTimes(b, QuotScale(b))), Base - 1),
                  r, b)

\* the quotient q so far with the next digit d, and what is left of r
NDivDigit(q, r, b, d) == <<NTrim(<<d>> \o q), NSub(r, NTimes(b, d))>>

NDivStep(q, r, b) == NDivDigit(q, r, b, QuotDigit(r, b))

\* h = <<quotient, remainder>> of the digits above the digit hd
NDivNext(h, hd, b) == NDivStep(h[1], NTrim(<<hd>> \o h[2]), b)

RECURSIVE NDivMod(_, _)
\* <<a div b, a mod b>> for b > 0, by long division from the leading digit
NDivMod(a, b) ==
    IF a = <<>> THEN <<(<<>>), (<<>>)>>
    ELSE NDivNext(NDivMod(Tail(a), b), Head(a), b)

NSquare(a) == NMul(a, a)

RECURSIVE NPow2(_)
NPow2(n) ==
    IF n < 13 THEN <<2 ^ n>>
    ELSE NTimes(NSquare(NPow2(n \div 2)), 1 + (n % 2))

\* the powers of two up to 2^130
Pow2 == [n \in 0..130 |-> NPow2(n)]

\* the number of binary digits of a
NBits(a) ==
    IF a = <<>> THEN 0
    ELSE CHOOSE n \in 1..130 : NCmp(Pow2[n - 1], a) <= 0 /\ NCmp(a, Pow2[n]) < 0

NOdd(a) == a # <<>> /\ a[1] % 2 = 1

(***************************************************************************)
(* int64: signed values, and the wrap-around of numpy's integer            *)
(* arithmetic.                                                             *)
(***************************************************************************)
\* 2^63 = 9223372036854775808 and 2^64 = 18446744073709551616
Two63 == <<5808, 5477, 368, 3372, 922>>

Two64 == <<1616, 955, 737, 6744, 1844>>

Int64(neg, mag) == [neg |-> neg /\ mag # <<>>, mag |-> mag]

\* a Python int of the argument lists as an element of an int64 array
I(n) == IF n < 0 THEN Int64(TRUE, NOfInt(-n)) ELSE Int64(FALSE, NOfInt(n))

Zero == Int64(FALSE, <<>>)

INT64_MIN == Int64(TRUE, Two63)

INT64_MAX == Int64(FALSE, NSub(Two63, <<1>>))

\* the exact integer operations
ZNeg(a) == Int64(~a.neg, a.mag)

ZAdd(a, b) ==
    IF a.neg = b.neg THEN Int64(a.neg, NAdd(a.mag, b.mag))
    ELSE IF NCmp(a.mag, b.mag) >= 0 THEN Int64(a.neg, NSub(a.mag, b.mag))
    ELSE Int64(b.neg, NSub(b.mag, a.mag))

ZMul(a, b) == Int64(a.neg # b.neg, NMul(a.mag, b.mag))

RECURSIVE ZSum(_)
ZSum(s) == IF s = <<>> THEN Zero ELSE ZAdd(Head(s), ZSum(Tail(s)))

\* -1, 0 or 1 as a < b, a = b or a > b
ZCmp(a, b) ==
    IF a.neg # b.neg THEN (IF a.neg THEN -1 ELSE 1)
    ELSE NCmp(IF a.neg THEN b.mag ELSE a.mag, IF a.neg THEN a.mag ELSE b.mag)

\* the value an int64 holds when the exact result of an operation is a:
\* the value congruent to a modulo 2^64 between INT64_MIN and INT64_MAX
\* the residue modulo 2^64 of the number with magnitude m modulo 2^64
Residue(neg, m) == IF neg /\ m # <<>> THEN NSub(Two64, m) ELSE m

\* the int64 with the bits of r < 2^64
Signed(r) ==
    IF NCmp(r, Two63) >= 0 THEN Int64(TRUE, NSub(Two64, r)) ELSE Int64(FALSE, r)

Wrap64(a) ==
    IF NCmp(a.mag, Two63) < 0 THEN a
    ELSE Signed(Residue(a.neg, NDivMod(a.mag, Two64)[2]))

\* abs of an np.int64: abs(INT64_MIN) wraps to INT64_MIN
Abs64(a) == IF a.mag = Two63 THEN a ELSE Int64(FALSE, a.mag)

\* np.array(list of Python ints)
Array(s) == [i \in 1..Len(s) |-> I(s[i])]

(***************************************************************************)
(* np.gcd: Euclid's algorithm on the absolute values; reduce folds it over *)
(* the array from the left, and its identity is 0.                         *)
(***************************************************************************)
RECURSIVE NGcd(_, _)
\* while (a != 0) { c = a; a = b % a; b = c; } return b
NGcd(a, b) == IF a = <<>> THEN b ELSE NGcd(NDivMod(b, a)[2], a)

\* the gcd 2^63 of INT64_MIN and 0 wraps to INT64_MIN
Unsigned(g) == Int64(g = Two63, g)

Gcd64(a, b) == Unsigned(NGcd(a.mag, b.mag))

RECURSIVE GcdFold(_, _)
GcdFold(g, s) == IF s = <<>> THEN g ELSE GcdFold(Gcd64(g, Head(s)), Tail(s))

gcd_reduce(s) == IF s = <<>> THEN Zero ELSE GcdFold(Head(s), Tail(s))

(***************************************************************************)
(* float64.  A finite double is [kind |-> "num", neg, man, exp] with value *)
(* man * 2^exp and man < 2^53 + 1; the other kinds are "nan" and "inf".    *)
(* Every result is rounded to 53 significant bits, ties to even.           *)
(***************************************************************************)
MantissaBits == 53

Num(neg, man, e) == [kind |-> "num", neg |-> neg /\ man # <<>>, man |-> man, exp |-> e]

NaN == [kind |-> "nan", neg |-> FALSE, man |-> <<>>, exp |-> 0]

Inf(neg) == [kind |-> "inf", neg |-> neg, man |-> <<>>, exp |-> 0]

\* m (with sticky telling that bits below m were dropped already) rounded to
\* MantissaBits bits: <<mantissa, exponent>>
\* d = <<kept, dropped>>: round up when the dropped bits are more than half
\* a unit, or half a unit and the kept bits are odd
RoundUp(d, half, sticky) ==
    \/ NCmp(d[2], half) > 0
    \/ NCmp(d[2], half) = 0 /\ (sticky \/ NOdd(d[1]))

RoundKept(d, half, sticky) ==
    IF RoundUp(d, half, sticky) THEN NAdd(d[1], <<1>>) ELSE d[1]

RoundDrop(m, sticky, drop) ==
    IF drop <= 0 THEN <<m, 0>>
    ELSE <<RoundKept(NDivMod(m, Pow2[drop]), Pow2[drop - 1], sticky), drop>>

RoundBits(m, sticky) == RoundDrop(m, sticky, NBits(m) - MantissaBits)

\* the double with the rounded mantissa r = <<mantissa, exponent>>, times 2^e
Rounded(neg, r, e) == Num(neg, r[1], r[2] + e)

\* the int64 a as a float64
ToFloat64(a) == Rounded(a.neg, RoundBits(a.mag, FALSE), 0)

\* a / b for two finite doubles, b # 0: the quotient of the mantissas is
\* computed with at least two bits more than are kept
DivRound(a, b, s, d) ==
    Rounded(a.neg # b.neg, RoundBits(d[1], d[2] # <<>>), a.exp - b.exp - s)

\* a.man is shifted left by s bits before the division
DivShift(a, b, s) == DivRound(a, b, s, NDivMod(NMul(a.man, Pow2[s]), b.man))

Positive(n) == IF n > 0 THEN n ELSE 0

Div64(a, b) ==
    IF a.man = <<>> THEN Num(a.neg # b.neg, <<>>, 0)
    ELSE DivShift(a, b,
                  Positive(NBits(b.man) + MantissaBits + 2 - NBits(a.man)))

\* zz / self.gcd for one element: both operands are converted to float64
true_divide(a, b) ==
    IF b = Zero THEN (IF a = Zero THEN NaN ELSE Inf(a.neg))
    ELSE Div64(ToFloat64(a), ToFloat64(b))

\* astype(int) of one element: the fraction is cut off.  The conversion of
\* nan, of an infinity and of a value outside int64 is undefined in C: x86-64
\* gives INT64_MIN for all of them, aarch64 gives 0 for nan and the nearest
\* int64 for the others.
Processors == {"x86-64", "aarch64"}

\* the integer part of the magnitude of a finite double
Trunc(f) ==
    IF f.exp >= 0 THEN NMul(f.man, Pow2[f.exp])
    ELSE NDivMod(f.man, Pow2[-f.exp])[1]

\* the exact integer v as an int64
Cast(v, p) ==
    IF NCmp(v.mag, Two63) < 0 \/ v = INT64_MIN THEN v
    ELSE IF p = "x86-64" \/ v.neg THEN INT64_MIN ELSE INT64_MAX

astype_int(f, p) ==
    IF f.kind = "nan" THEN (IF p = "x86-64" THEN INT64_MIN ELSE Zero)
    ELSE IF f.kind = "inf"
    THEN (IF p = "x86-64" \/ f.neg THEN INT64_MIN ELSE INT64_MAX)
    ELSE Cast(Int64(f.neg, Trunc(f)), p)


(***************************************************************************)
(* Line 35 as numpy computes it: x and y are int64 arrays and every        *)
(* product, sum and difference wraps around.  int64 arithmetic is          *)
(* arithmetic modulo 2^64, so the elements are those of the exact          *)
(* expression, wrapped once.                                               *)
(***************************************************************************)
\* the exact x * y, elementwise
Times(x, y) == [i \in 1..BroadLen(Len(x), Len(y)) |-> ZMul(At(x, i), At(y, i))]

\* zz = (x * y**2).sum() * x - (x**2 * y).sum() * y
\* a * x - b * y for the scalars a and b
Scaled(a, x, b, y) ==
    [i \in 1..BroadLen(Len(x), Len(y)) |->
        Wrap64(ZAdd(ZMul(a, At(x, i)), ZNeg(ZMul(b, At(y, i)))))]

Combine64(x, y) ==
    Scaled(ZSum(Times(x, Times(y, y))), x, ZSum(Times(Times(x, x), y)), y)

RECURSIVE InsertByAbs64(_, _)
InsertByAbs64(v, s) ==
    IF s = <<>> THEN <<v>>
    ELSE IF ZCmp(Abs64(Head(s)), Abs64(v)) <= 0
         THEN <<Head(s)>> \o InsertByAbs64(v, Tail(s))
         ELSE <<v>> \o s

RECURSIVE StableSortAbs64(_)
StableSortAbs64(s) ==
    IF s = <<>> THEN <<>>
    ELSE InsertByAbs64(s[Len(s)], StableSortAbs64(SubSeq(s, 1, Len(s) - 1)))

sorted64(s, rev) ==
    IF rev THEN Rev(StableSortAbs64(Rev(s))) ELSE StableSortAbs64(s)

Unsorted64(l, kk) == Combine64(Array(X(l, kk)), Array(Y(l, kk)))

\* _z with the array arithmetic of numpy
Arranged64(v, srt, rev) == IF srt THEN sorted64(v, rev) ELSE v

_z64(l, kk, srt, rev) ==
    IF ErrorOf(l, kk) # "none" THEN Raise(ErrorOf(l, kk))
    ELSE Return(Arranged64(Unsorted64(l, kk), srt, rev))

(***************************************************************************)
(* cfree.__call__, statement by statement.  A thread t calls the instance  *)
(* self[t]; frame[t] is its position in __call__ with the local zz and the *)
(* value of (zz / self.gcd).astype(int) once it is computed; ret[t] is the *)
(* outcome of its most recent call.  gcd[o] and simplified[o] are the      *)
(* attributes of instance o, and attrs[o] the names of those that exist.   *)
(***************************************************************************)
Threads == {1, 2}

Instances == {1, 2}

Idle == [at |-> "idle", zz |-> <<>>, q |-> <<>>]

NoCall == [err |-> "no call", zz |-> <<>>]

\* the arrays (zz / g).astype(int) can be, one for each kind of processor
Simplified(v, g) ==
    {[i \in 1..Len(v) |-> astype_int(true_divide(v[i], g), p)] : p \in Processors}

\* line 48: zz = _z(ll, k, sort=sort, reverse=reverse); an exception of _z
\* ends the call
\* r is the outcome of _z
Assign48(t, r) ==
    IF r.err = "none"
    THEN /\ frame' = [frame EXCEPT ![t] = [at |-> "line 49", zz |-> r.zz, q |-> <<>>]]
         /\ UNCHANGED ret
    ELSE /\ ret' = [ret EXCEPT ![t] = r]
         /\ UNCHANGED frame

\* as CallZ, but the attributes of the instance are cleared on entry
CallZ_reset(t, l, kk, srt, rev) ==
    /\ frame[t].at = "idle"
    /\ calls < MaxCalls
    /\ calls' = calls + 1
    /\ Assign48(t, _z64(l, kk, srt, rev))
    /\ gcd' = [gcd EXCEPT ![self[t]] = Zero]
    /\ simplified' = [simplified EXCEPT ![self[t]] = <<>>]
    /\ attrs' = [attrs EXCEPT ![self[t]] = {}]
    /\ UNCHANGED <<self, genVars>>

CallZ(t, l, kk, srt, rev) ==
    /\ frame[t].at = "idle"
    /\ calls < MaxCalls
    /\ calls' = calls + 1
    /\ Assign48(t, _z64(l, kk, srt, rev))
    /\ UNCHANGED <<self, gcd, simplified, attrs, genVars>>

\* as StoreGcd, but gcd is an attribute of the class, shared by the instances
StoreGcd_class(t) ==
    /\ frame[t].at = "line 49"
    /\ gcd' = [o \in Instances |-> gcd_reduce(frame[t].zz)]
    /\ attrs' = [o \in Instances |-> attrs[o] \cup {"gcd"}]
    /\ frame' = [frame EXCEPT ![t].at = "line 50"]
    /\ UNCHANGED <<self, simplified, ret, calls, genVars>>

\* line 49: self.gcd = np.gcd.reduce(zz)
StoreGcd(t) ==
    /\ frame[t].at = "line 49"
    /\ gcd' = [gcd EXCEPT ![self[t]] = gcd_reduce(frame[t].zz)]
    /\ attrs' = [attrs EXCEPT ![self[t]] = @ \cup {"gcd"}]
    /\ frame' = [frame EXCEPT ![t].at = "line 50"]
    /\ UNCHANGED <<self, simplified, ret, calls, genVars>>

\* line 50, right-hand side: (zz / self.gcd).astype(int)
Divide(t) ==
    /\ frame[t].at = "line 50"
    /\ \E q \in Simplified(frame[t].zz, gcd[self[t]]) :
           frame' = [frame EXCEPT ![t].at = "line 50 store", ![t].q = q]
    /\ UNCHANGED <<self, gcd, simplified, attrs, ret, calls, genVars>>

\* line 50, assignment: self.simplified = ...
StoreSimplified(t) ==
    /\ frame[t].at = "line 50 store"
    /\ simplified' = [simplified EXCEPT ![self[t]] = frame[t].q]
    /\ attrs' = [attrs EXCEPT ![self[t]] = @ \cup {"simplified"}]
    /\ frame' = [frame EXCEPT ![t].at = "line 51"]
    /\ UNCHANGED <<self, gcd, ret, calls, genVars>>

\* line 51: return zz
ReturnZZ(t) ==
    /\ frame[t].at = "line 51"
    /\ ret' = [ret EXCEPT ![t] = Return(frame[t].zz)]
    /\ frame' = [frame EXCEPT ![t] = Idle]
    /\ UNCHANGED <<self, gcd, simplified, attrs, calls, genVars>>

Step(t) == StoreGcd(t) \/ Divide(t) \/ StoreSimplified(t) \/ ReturnZZ(t)

(***************************************************************************)
(* The generator applied once to inputs drawn from the bounded sets.  No   *)
(* wrapper is called.                                                      *)
(***************************************************************************)
Init ==
    /\ ll \in SeqsUpTo(Vals, MaxLen)
    /\ k \in SeqsUpTo(Vals, MaxLen + 1)
    /\ sort \in BOOLEAN
    /\ reverse \in BOOLEAN
    /\ pc = "start"
    /\ zz = <<>>
    /\ self = [t \in Threads |-> t]
    /\ gcd = [o \in Instances |-> Zero]
    /\ simplified = [o \in Instances |-> <<>>]
    /\ attrs = [o \in Instances |-> {}]
    /\ frame = [t \in Threads |-> Idle]
    /\ ret = [t \in Threads |-> NoCall]
    /\ calls = 0

Generate ==
    /\ pc = "start"
    /\ LET r == _z(ll, k, sort, reverse)
       IN  /\ pc' = IF r.err = "none" THEN "returned" ELSE "raised"
           /\ zz' = r.zz
    /\ UNCHANGED <<ll, k, sort, reverse, wrapVars>>

Next == Generate

Spec == Init /\ [][Next]_vars

(***************************************************************************)
(* One caller, one instance: the calls follow one another.                 *)
(***************************************************************************)
InitCall ==
    /\ self = [t \in Threads |-> t]
    /\ gcd = [o \in Instances |-> Zero]
    /\ simplified = [o \in Instances |-> <<>>]
    /\ attrs = [o \in Instances |-> {}]
    /\ frame = [t \in Threads |-> Idle]
    /\ ret = [t \in Threads |-> NoCall]
    /\ calls = 0
    /\ ll = <<>> /\ k = <<>> /\ sort = TRUE /\ reverse = FALSE
    /\ pc = "start" /\ zz = <<>>

CallVals == 0..MaxCallVal

NextCall ==
    \/ \E l \in SeqsUpTo(CallVals, 1), kk \in SeqsUpTo(CallVals, 2),
          srt \in BOOLEAN, rev \in BOOLEAN : CallZ(1, l, kk, srt, rev)
    \/ Step(1)

SpecCall == InitCall /\ [][NextCall]_vars

(***************************************************************************)
(* The same with arguments of five digits, for which the elements of zz    *)
(* exceed 2^53.                                                            *)
(***************************************************************************)
BigVals == 10000..(10000 + MaxBig)

NextBig ==
    \/ \E a \in BigVals, b \in BigVals, srt \in BOOLEAN, rev \in BOOLEAN :
          CallZ(1, <<a>>, <<b>>, srt, rev)
    \/ Step(1)

SpecBig == InitCall /\ [][NextBig]_vars

(***************************************************************************)
(* Two threads, each making one call, on one shared instance or on an      *)
(* instance of its own.                                                    *)
(***************************************************************************)
InitThreads ==
    /\ self \in {[t \in Threads |-> 1], [t \in Threads |-> t]}
    /\ gcd = [o \in Instances |-> Zero]
    /\ simplified = [o \in Instances |-> <<>>]
    /\ attrs = [o \in Instances |-> {}]
    /\ frame = [t \in Threads |-> Idle]
    /\ ret = [t \in Threads |-> NoCall]
    /\ calls = 0
    /\ ll = <<>> /\ k = <<>> /\ sort = TRUE /\ reverse = FALSE
    /\ pc = "start" /\ zz = <<>>

NextThreads ==
    \E t \in Threads :
        \/ /\ ret[t] = NoCall
           /\ \E l \in SeqsUpTo(CallVals, 1), kk \in SeqsUpTo(CallVals, 1),
                 srt \in BOOLEAN : CallZ(t, l, kk, srt, FALSE)
        \/ Step(t)

SpecThreads == InitThreads /\ [][NextThreads]_vars

(***************************************************************************)
(* Properties of the generator, checked under Spec.                        *)
(***************************************************************************)
\* ll and k are non-empty and k is as long as ll or one longer
Valid == ll # <<>> /\ k # <<>> /\ (Len(k) = Len(ll) \/ Len(k) = Len(ll) + 1)

AllZero(s) == \A i \in 1..Len(s) : s[i] = 0

Cubes(s) == [i \in 1..Len(s) |-> s[i] * s[i] * s[i]]

AbsSeq(s) == [i \in 1..Len(s) |-> Abs(s[i])]

RECURSIVE WithAbs(_, _)
\* the elements of s whose absolute value is a, in their order in s
WithAbs(s, a) ==
    IF s = <<>> THEN <<>>
    ELSE IF Abs(Head(s)) = a THEN <<Head(s)>> \o WithAbs(Tail(s), a)
         ELSE WithAbs(Tail(s), a)

C4_BadShapeRaises ==
    (pc # "start" /\ ll # <<>> /\ k # <<>> /\ ~Valid) =>
        pc = "raised" /\ zz = <<>>

C4_Witness ==
    pc = "raised" /\ ll # <<>> /\ Len(k) = Len(ll) + 2

Returned(t) == frame[t].at = "idle" /\ ret[t].err = "none"

\* C2: after sequential calls on one instance, if the most recent call
\* returned zz and the stored gcd is not 0, then simplified[i] * gcd = zz[i]
\* for every index i of that zz.  Checked under SpecBig.
C2_DivisorProperty ==
    (Returned(1) /\ gcd[self[1]] # Zero) =>
        /\ Len(simplified[self[1]]) = Len(ret[1].zz)
        /\ \A i \in 1..Len(ret[1].zz) :
               ZMul(simplified[self[1]][i], gcd[self[1]]) = ret[1].zz[i]

\* C6: a call that produced an all-zero vector (gcd = 0) and completed
\* normally has stored simplified equal to zz.  Checked under SpecCall.
C6_ZeroGcdFailsOrPassesThrough ==
    (Returned(1) /\ "simplified" \in attrs[self[1]] /\ gcd[self[1]] = Zero) =>
        simplified[self[1]] = ret[1].zz

\* the attributes of instance o are the gcd and a reduced form of z
Corresponds(o, z) ==
    /\ attrs[o] = {"gcd", "simplified"}
    /\ gcd[o] = gcd_reduce(z)
    /\ simplified[o] \in Simplified(z, gcd[o])

\* C7: when each of two concurrent callers uses its own instance, then once
\* both calls have returned every instance holds the gcd and the reduced
\* form of the vector returned to its caller.  On a shared instance a state
\* is reachable in which the stored pair belongs to neither returned vector
\* (C7_Witness).  Checked under SpecThreads.
C7_OwnInstancesConsistent ==
    ((\A t \in Threads : Returned(t)) /\ self[1] # self[2]) =>
        \A t \in Threads : Corresponds(self[t], ret[t].zz)

C7_Witness ==
    /\ self[1] = self[2]
    /\ \A t \in Threads : Returned(t)
    /\ \A t \in Threads : ~Corresponds(self[t], ret[t].zz)
    /\ gcd[self[1]] = gcd_reduce(ret[2].zz)
    /\ simplified[self[1]] \in Simplified(ret[1].zz, gcd[self[1]])

\* C10: a call in which _z raises leaves gcd and simplified of the instance
\* as they were, set or unset; and they change only in a step of a call
\* whose _z has returned a vector.  Checked under SpecCall.
C10_FailedCallKeepsFields ==
    [][/\ (calls' # calls /\ frame' = frame) =>
            /\ \E t \in Threads : ret'[t].err \notin {"none", "no call"}
            /\ <<gcd, simplified, attrs>>' = <<gcd, simplified, attrs>>
       /\ (<<gcd, simplified, attrs>>' # <<gcd, simplified, attrs>>) =>
            \E t \in Threads : /\ frame[t].at \in {"line 49", "line 50 store"}
                                /\ frame[t].zz # <<>>]_vars

C10_Witness ==
    /\ frame[1].at = "idle"
    /\ ret[1].err \notin {"none", "no call"}
    /\ attrs[self[1]] = {"gcd", "simplified"}
    /\ gcd[self[1]] # Zero
    /\ calls = 2

====
